---- MODULE Spec2Model ----
(***************************************************************************)
(* Model of the AI Screen Assistant request pipeline (src/main.py) with    *)
(* the overlay (src/ui/overlay.py), the capture provider                   *)
(* (src/capture/screen_capture.py) and the AI client                       *)
(* (src/ai/github_ai_client.py).                                           *)
(*                                                                         *)
(* Execution contexts:                                                     *)
(*   - the hotkey listener context runs the hotkey callbacks one at a time *)
(*     (HotkeyManager.start: "listening ... in a background thread"):      *)
(*     App._trigger_scan and OverlayWindow.toggle_visibility;              *)
(*   - one QThread per accepted trigger runs AIWorker.run, whose signals   *)
(*     call App._on_ai_finished / App._on_ai_error and then QThread.quit;  *)
(*   - the region selector delivers App._on_region_selected.               *)
(* Steps of different contexts interleave; steps of the same context do    *)
(* not.                                                                    *)
(***************************************************************************)
EXTENDS Integers, Sequences, FiniteSets, TLC

\* ---------------------------------------------------------------- bounds
MaxTriggers == 2

\* calls made on one client
MaxCalls == 2

\* contexts calling one OCREngine, and the calls each of them makes
OcrCallers == 2

MaxOcrCalls == 2

\* selection sessions of the RegionSelector
MaxSessions == 2

Trig == 1..MaxTriggers

\* ------------------------------------------------------- values and inputs
\* Optional[Tuple[int,int,int,int]]: the empty tuple stands for None.
NoRegion == <<>>

\* A part of the CAPTURE_REGION value between commas: one that int()
\* accepts, or one that makes it raise ValueError
Num(n) == [num |-> TRUE, n |-> n]

Junk == [num |-> FALSE, n |-> 0]

\* Values of the CAPTURE_REGION environment variable, split at the commas
\* (the empty sequence is the unset or empty value)
ConfigValues ==
    { <<>>,
      <<Num(0), Num(0), Num(8), Num(6)>>,
      <<Num(1), Num(2), Num(3)>>,
      <<Num(0), Num(0), Junk, Num(6)>>,
      <<Num(10), Num(10), Num(0), Num(-4)>> }

\* config._parse_region (lines 22-32)
ParseRegion(value) ==
    IF value = <<>> THEN NoRegion
    ELSE IF Len(value) # 4 THEN NoRegion
    ELSE IF \E i \in 1..4 : ~value[i].num THEN NoRegion
    ELSE <<value[1].n, value[2].n, value[3].n, value[4].n>>

\* config.CAPTURE_REGION (lines 35-37)
ConfigRegions == {ParseRegion(value) : value \in ConfigValues}

SelectorRegions == {<<1, 2, 6, 7>>}

CaptureErrors == {"ScreenShotError"}

\* JSON values, tagged by their Python type after response.json().
JStr(s) == [type |-> "string", s |-> s]

JNull == [type |-> "null", s |-> ""]

JObj(fields) == [type |-> "object", v |-> fields]

JArr(elems) == [type |-> "array", v |-> elems]

Choice(c) == JObj([message |-> JObj([content |-> c])])

\* Response bodies of a success status: a well-formed answer, a null
\* content, and no choice at all.
Bodies ==
    { JObj([choices |-> JArr(<<Choice(JStr("A1"))>>)]),
      JObj([choices |-> JArr(<<Choice(JNull)>>)]),
      JObj([choices |-> JArr(<<>>)]) }

\* The further bodies a success status is given when the client is called
\* directly: several choices, and each way of lacking a level of
\* choices[0].message.content.
ClientBodies ==
    Bodies \cup
    { JObj([choices |-> JArr(<<Choice(JStr("A1")), Choice(JStr("A2"))>>)]),
      JObj([choices |-> JArr(<<Choice(JStr("A2")), JNull>>)]),
      JObj([error |-> JStr("bad request")]),
      JObj([choices |-> JNull]),
      JObj([choices |-> JObj([first |-> Choice(JStr("A1"))])]),
      JObj([choices |-> JArr(<<JNull>>)]),
      JObj([choices |-> JArr(<<JObj([finish_reason |-> JStr("stop")])>>)]),
      JObj([choices |-> JArr(<<JObj([message |-> JNull])>>)]),
      JObj([choices |->
              JArr(<<JObj([message |->
                             JObj([role |-> JStr("assistant")])])>>)]),
      JArr(<<Choice(JStr("A1"))>>) }

\* a response without a JSON body
NoBody == [type |-> "empty", s |-> ""]

\* What the transport does with one POST.
Responses ==
    {[kind |-> "transport", status |-> 0, body |-> NoBody]}
    \cup {[kind |-> "http", status |-> 500, body |-> NoBody]}
    \cup {[kind |-> "http", status |-> 200, body |-> b] : b \in Bodies}

\* The network-level failures of httpx, all subclasses of RequestError
TransportFailures == {"ConnectError", "ConnectTimeout", "ReadTimeout"}

SuccessStatuses == {200, 201}

OtherStatuses == {302, 404, 500}

ClientResponses ==
    {[kind |-> "transport", status |-> 0, body |-> NoBody,
      cause |-> c] : c \in TransportFailures}
    \cup {[kind |-> "http", status |-> st, body |-> NoBody,
           cause |-> ""] : st \in OtherStatuses}
    \cup {[kind |-> "http", status |-> st, body |-> b,
           cause |-> ""] : st \in SuccessStatuses, b \in ClientBodies}

\* --------------------------------------------------------------- variables
VARIABLES
    pc,          \* position of the hotkey context inside _trigger_scan
    cur,         \* trigger being handled by the hotkey context (0: none)
    nTrig,       \* number of triggers received so far
    was_visible, \* local of _trigger_scan
    visible,     \* OverlayWindow.isVisible()
    label,       \* OverlayWindow._result_label
    region,      \* App._region
    thread,      \* App._thread: 0 is None, else the run (trigger) it serves
    tstate,      \* per run: state of its QThread
    wpc,         \* per run: position of AIWorker.run
    wres,        \* per run: outcome of GitHubAIClient._call
    capt,        \* per trigger: the capture it took
    sink,        \* per trigger: presentation-sink calls made for it
    posts,       \* per trigger: HTTP POSTs issued for it (modes)
    fate,        \* per trigger: what became of it
    arrival,     \* per trigger: whether a run was in flight when it arrived
    during,      \* per dropped trigger: the run that was in flight
    lastUpdate,  \* arguments of the last region_selected signal (<<>>: none)
    env,         \* config.GITHUB_TOKEN and config.AI_MODEL of the process
    client,      \* the GitHubAIClient: its construction and attributes
    lastCall,    \* the last answer_from_* call made on the client
    transport,   \* number of POSTs the transport has received
    built,       \* the last PromptBuilder invocation and its product
    opc,         \* per OCR caller: its position in extract_text
    oreader,     \* OCREngine._reader (0: None, else the reader's number)
    nReaders,    \* number of easyocr.Reader objects constructed
    oused,       \* per OCR caller: the readers its calls have used
    ocalls,      \* per OCR caller: the calls it has begun
    selOpen,     \* whether the RegionSelector widget is shown
    origin,      \* RegionSelector._origin
    current,     \* RegionSelector._current
    emitted,     \* the region_selected emissions of the open session
    sessions,    \* number of selection sessions started
    closedBy,    \* the event that closed the selector last
    listener,    \* HotkeyManager._listener
    qt,          \* the Qt event loop of App.run
    sct          \* the mss handle held by ScreenCapture

vars == <<pc, cur, nTrig, was_visible, visible, label, region, thread, tstate,
          wpc, wres, capt, sink, posts, fate, arrival, during, lastUpdate,
          env, client, lastCall, transport, built,
          opc, oreader, nReaders, oused, ocalls,
          selOpen, origin, current, emitted, sessions, closedBy,
          listener, qt, sct>>

regionVars == <<lastUpdate>>

clientVars == <<env, client, lastCall, transport, built>>

pipelineVars == <<pc, cur, nTrig, was_visible, visible, label, region, thread,
                  tstate, wpc, wres, capt, sink, posts, fate, arrival,
                  during, lastUpdate>>

ocrVars == <<opc, oreader, nReaders, oused, ocalls>>

selectorVars == <<selOpen, origin, current, emitted, sessions, closedBy>>

shutdownVars == <<listener, qt, sct>>

sideVars == <<ocrVars, selectorVars, shutdownVars>>

hotkeyVars == <<pc, cur, nTrig, was_visible>>

workerVars == <<thread, tstate, wpc, wres>>

\* ------------------------------------------------------------ ScreenCapture
\* monitors[1] of mss: the primary display
PrimaryMonitor == [display |-> "primary"]

\* _build_monitor: None is the primary monitor, a tuple is its rectangle
BuildMonitor(r) ==
    IF r = NoRegion THEN PrimaryMonitor
    ELSE [left |-> r[1], top |-> r[2], width |-> r[3], height |-> r[4]]

NoCapture == [taken |-> FALSE, ok |-> FALSE, region |-> NoRegion,
              monitor |-> PrimaryMonitor, overlay |-> FALSE, exc |-> ""]

NoResult == [kind |-> "none", exc |-> "", value |-> JNull]

ReadyLabel == [op |-> "ready", arg |-> <<>>]

\* ------------------------------------------------------------ OverlayWindow
ShowLoadingCall == [op |-> "show_loading", arg |-> <<>>]

ShowResultCall(text) == [op |-> "show_result", arg |-> <<text>>]

ShowErrorCall(message) == [op |-> "show_error", arg |-> message]

\* show_loading / show_result / show_error: set the label, show if hidden.
Show(t, call) ==
    /\ label' = call
    /\ visible' = TRUE
    /\ sink' = [sink EXCEPT ![t] = Append(@, call)]

\* ------------------------------------------------------------ PromptBuilder
SYSTEM_PROMPT_VISION == "You are an AI assistant ... a screenshot"

SYSTEM_PROMPT_TEXT == "You are an AI assistant ... extracted text"

DefaultVisionInstruction ==
    "Please read and answer all questions in this image."

DefaultTextInstruction == "Please answer the questions above."

\* Inputs of the builders
Payloads == {"iVBORw0KGgo=", "QUJDREVG"}

Instructions == {DefaultVisionInstruction, DefaultTextInstruction,
                 "Solve it", ""}

Texts == {"2+2=?", "line1\nline2", ""}

\* build_vision_messages (lines 43-57)
BuildVisionMessagesTextFirst(base64_image, user_instruction) ==
    << [role |-> "system", content |-> SYSTEM_PROMPT_VISION],
       [role |-> "user",
        content |->
          << [type |-> "text", text |-> user_instruction],
             [type |-> "image_url",
              image_url |->
                [url |-> "data:image/png;base64," \o base64_image]] >>] >>

BuildVisionMessages(base64_image, user_instruction) ==
    << [role |-> "system", content |-> SYSTEM_PROMPT_VISION],
       [role |-> "user",
        content |->
          << [type |-> "image_url",
              image_url |->
                [url |-> "data:image/png;base64," \o base64_image]],
             [type |-> "text", text |-> user_instruction] >>] >>

\* build_text_messages (lines 77-83)
BuildTextMessagesOneNewline(extracted_text, user_instruction) ==
    << [role |-> "system", content |-> SYSTEM_PROMPT_TEXT],
       [role |-> "user",
        content |-> "Screen content:\n" \o extracted_text \o "\n"
                      \o user_instruction] >>

BuildTextMessages(extracted_text, user_instruction) ==
    << [role |-> "system", content |-> SYSTEM_PROMPT_TEXT],
       [role |-> "user",
        content |-> "Screen content:\n\n" \o extracted_text \o "\n\n"
                      \o user_instruction] >>

NoBuilt == [fn |-> "none", a |-> "", b |-> "", out |-> <<>>]

\* ----------------------------------------------------------- GitHubAIClient
\* Optional[str] constructor arguments: given is FALSE for None
Absent == [given |-> FALSE, v |-> ""]

Given(x) == [given |-> TRUE, v |-> x]

\* Python's "x or default" on an Optional[str]
OrDefault(x, default) == IF x.given /\ x.v # "" THEN x.v ELSE default

Envs == {[GITHUB_TOKEN |-> tok, AI_MODEL |-> "openai/gpt-4o"] :
            tok \in {"", "ghp_env"}}

\* config.py lines 12-13 with a token in the environment
DefaultEnv == [GITHUB_TOKEN |-> "ghp_env", AI_MODEL |-> "openai/gpt-4o"]

CtorArgs ==
    [token : {Absent, Given(""), Given("ghp_arg")},
     model : {Absent, Given("openai/gpt-4o-mini")},
     temperature : {"0.3"},
     max_tokens : {2000, 16},
     timeout : {"60.0"}]

DefaultArgs == [token |-> Absent, model |-> Absent, temperature |-> "0.3",
                max_tokens |-> 2000, timeout |-> "60.0"]

Unbuilt == [state |-> "unbuilt", args |-> DefaultArgs, token |-> "",
            model |-> "", temperature |-> "", max_tokens |-> 0,
            timeout |-> ""]

\* __init__ (lines 44-54): the attributes are set, then an empty token
\* raises ValueError
NewClientDeferredCheck(args, e) ==
    [state |-> "built", args |-> args,
     token |-> OrDefault(args.token, e.GITHUB_TOKEN),
     model |-> OrDefault(args.model, e.AI_MODEL),
     temperature |-> args.temperature, max_tokens |-> args.max_tokens,
     timeout |-> args.timeout]

NewClient(args, e) ==
    [state |-> IF OrDefault(args.token, e.GITHUB_TOKEN) = ""
               THEN "raised" ELSE "built",
     args |-> args,
     token |-> OrDefault(args.token, e.GITHUB_TOKEN),
     model |-> OrDefault(args.model, e.AI_MODEL),
     temperature |-> args.temperature, max_tokens |-> args.max_tokens,
     timeout |-> args.timeout]

NoCall == [fn |-> "none", arg |-> "", payload |-> <<>>, headers |-> <<>>,
           resp |-> [kind |-> "none", status |-> 0, body |-> NoBody,
                     cause |-> ""],
           result |-> NoResult, posts |-> 0]

\* _build_payload (lines 96-102)
BuildPayloadWithHistory(c, messages) ==
    [model |-> c.model,
     messages |-> IF lastCall.fn = "none" THEN messages
                  ELSE lastCall.payload.messages \o messages,
     temperature |-> c.temperature, max_tokens |-> c.max_tokens]

BuildPayload(c, messages) ==
    [model |-> c.model, messages |-> messages,
     temperature |-> c.temperature, max_tokens |-> c.max_tokens]

\* _build_headers (lines 104-108)
BuildHeaders(c) ==
    [Authorization |-> "Bearer " \o c.token,
     ContentType |-> "application/json"]

\* _call line 119, raise_for_status: raises on every non-2xx status
RaiseForStatusErrorsOnly(status) == status >= 400

RaiseForStatus(status) == status < 200 \/ status > 299

\* Subscripts: a str key or an int index
Key(name) == [str |-> TRUE, s |-> name, i |-> 0]

Idx(n) == [str |-> FALSE, s |-> "", i |-> n]

\* Python's x[key] on a JSON value: KeyError from a dict, IndexError from
\* a list, TypeError from null, from a str subscripted by a str and from a
\* list subscripted by a str.  Lists are indexed from 0.
Subscript(x, key) ==
    IF x.type = "object"
    THEN IF key.str /\ key.s \in DOMAIN x.v
         THEN [exc |-> "", v |-> x.v[key.s]]
         ELSE [exc |-> "KeyError", v |-> JNull]
    ELSE IF x.type = "array"
    THEN IF key.str THEN [exc |-> "TypeError", v |-> JNull]
         ELSE IF key.i + 1 \in DOMAIN x.v
         THEN [exc |-> "", v |-> x.v[key.i + 1]]
         ELSE [exc |-> "IndexError", v |-> JNull]
    ELSE [exc |-> "TypeError", v |-> JNull]

\* x[k1][k2]...: the first exception ends the evaluation
RECURSIVE Path(_, _)
Path(x, keys) ==
    IF keys = <<>> THEN [exc |-> "", v |-> x]
    ELSE IF Subscript(x, Head(keys)).exc # ""
    THEN Subscript(x, Head(keys))
    ELSE Path(Subscript(x, Head(keys)).v, Tail(keys))

\* the index of the choice that line 123 reads
LastChoice(data) ==
    IF Path(data, <<Key("choices")>>).exc = ""
       /\ Path(data, <<Key("choices")>>).v.type = "array"
       /\ Len(Path(data, <<Key("choices")>>).v.v) > 0
    THEN Len(Path(data, <<Key("choices")>>).v.v) - 1 ELSE 0

FirstChoice(data) == 0

\* line 123: data["choices"][0]["message"]["content"]
Content(data) ==
    Path(data, <<Key("choices"), Idx(FirstChoice(data)), Key("message"),
                 Key("content")>>)

\* _call lines 122-127: a KeyError or IndexError of line 123 becomes a
\* ValueError that carries data; any other exception propagates as it is
ExtractContent(data) ==
    IF Content(data).exc = ""
    THEN [kind |-> "return", exc |-> "", value |-> Content(data).v]
    ELSE IF Content(data).exc \in {"KeyError", "IndexError"}
    THEN [kind |-> "raise", exc |-> "ValueError", value |-> data]
    ELSE [kind |-> "raise", exc |-> Content(data).exc, value |-> JNull]

\* line 120, response.json(): a body that is not JSON raises
Json(body) ==
    IF body.type = "empty"
    THEN [kind |-> "raise", exc |-> "JSONDecodeError", value |-> JNull]
    ELSE ExtractContent(body)

\* _call after the POST: the transport's RequestError propagates, then
\* raise_for_status, then json and choices[0].message.content
CallResultWrapsTransport(resp) ==
    IF resp.kind = "transport"
    THEN [kind |-> "raise", exc |-> "ValueError", value |-> JNull]
    ELSE IF RaiseForStatus(resp.status)
    THEN [kind |-> "raise", exc |-> "HTTPStatusError", value |-> JNull]
    ELSE Json(resp.body)

CallResult(resp) ==
    IF resp.kind = "transport"
    THEN [kind |-> "raise", exc |-> "RequestError", value |-> JNull]
    ELSE IF RaiseForStatus(resp.status)
    THEN [kind |-> "raise", exc |-> "HTTPStatusError", value |-> JNull]
    ELSE Json(resp.body)

\* ------------------------------------------------------------------ AIWorker
\* AIWorker.run: the signals emitted for an outcome of the call.  The
\* finished signal carries a str; emitting anything else raises TypeError
\* inside the try block, which the except clause turns into error.
RunSignalsBoth(res) ==
    IF res.kind = "return" /\ res.value.type = "string"
    THEN << [sig |-> "finished", arg |-> <<res.value.s>>],
            [sig |-> "error", arg |-> <<"TypeError">>] >>
    ELSE << >>

RunSignals(res) ==
    IF res.kind = "return"
    THEN IF res.value.type = "string"
         THEN << [sig |-> "finished", arg |-> <<res.value.s>>] >>
         ELSE << [sig |-> "error", arg |-> <<"TypeError">>] >>
    ELSE << [sig |-> "error", arg |-> <<res.exc>>] >>

\* App._on_ai_finished / App._on_ai_error
OnSignalCrossed(s) ==
    IF s.sig = "finished" THEN ShowErrorCall(s.arg)
    ELSE ShowResultCall(s.arg[1])

OnSignal(s) ==
    IF s.sig = "finished" THEN ShowResultCall(s.arg[1])
    ELSE ShowErrorCall(s.arg)

\* ------------------------------------------------------ initial values
\* OCREngine.__init__ (line 28): no reader yet
OcrNew ==
    /\ opc = [c \in 1..OcrCallers |-> "idle"]
    /\ oreader = 0
    /\ nReaders = 0
    /\ oused = [c \in 1..OcrCallers |-> <<>>]
    /\ ocalls = [c \in 1..OcrCallers |-> 0]

NoPoint == <<>>

\* RegionSelector.__init__ (lines 25-26): not shown, no drag
SelectorNew ==
    /\ selOpen = FALSE
    /\ origin = NoPoint
    /\ current = NoPoint
    /\ emitted = <<>>
    /\ sessions = 0
    /\ closedBy = "none"

\* App.__init__ line 57 and App.run lines 83-85: the capture handle is
\* held, the hotkey listener runs, the event loop executes
AppRunning ==
    /\ listener = "started"
    /\ qt = "exec"
    /\ sct = "open"

\* App.__init__ lines 57-71 with the configured region r
PipelineNew(r) ==
    /\ pc = "idle"
    /\ cur = 0
    /\ nTrig = 0
    /\ was_visible = FALSE
    /\ visible = TRUE
    /\ label = ReadyLabel
    /\ region = r
    /\ lastUpdate = <<>>
    /\ thread = 0
    /\ tstate = [t \in Trig |-> "unborn"]
    /\ wpc = [t \in Trig |-> "off"]
    /\ wres = [t \in Trig |-> NoResult]
    /\ capt = [t \in Trig |-> NoCapture]
    /\ sink = [t \in Trig |-> <<>>]
    /\ posts = [t \in Trig |-> <<>>]
    /\ fate = [t \in Trig |-> "none"]
    /\ arrival = [t \in Trig |-> "none"]
    /\ during = [t \in Trig |-> 0]

\* App.__init__ line 58: GitHubAIClient() with a token in the environment
ClientNew ==
    /\ env = DefaultEnv
    /\ client = NewClient(DefaultArgs, DefaultEnv)
    /\ lastCall = NoCall
    /\ transport = 0
    /\ built = NoBuilt

\* ----------------------------------------------------------------- Init
Init ==
    /\ pc = "idle"
    /\ cur = 0
    /\ nTrig = 0
    /\ was_visible = FALSE
    /\ visible = TRUE
    /\ label = ReadyLabel
    /\ region \in ConfigRegions
    /\ lastUpdate = <<>>
    /\ thread = 0
    /\ tstate = [t \in Trig |-> "unborn"]
    /\ wpc = [t \in Trig |-> "off"]
    /\ wres = [t \in Trig |-> NoResult]
    /\ capt = [t \in Trig |-> NoCapture]
    /\ sink = [t \in Trig |-> <<>>]
    /\ posts = [t \in Trig |-> <<>>]
    /\ fate = [t \in Trig |-> "none"]
    /\ arrival = [t \in Trig |-> "none"]
    /\ during = [t \in Trig |-> 0]
    /\ env = DefaultEnv
    /\ client = NewClient(DefaultArgs, DefaultEnv)
    /\ lastCall = NoCall
    /\ transport = 0
    /\ built = NoBuilt
    /\ OcrNew
    /\ SelectorNew
    /\ AppRunning

\* ------------------------------------------------- App._trigger_scan
\* line 114: self._thread is not None and self._thread.isRunning()
InFlightNever == FALSE

InFlight == thread # 0 /\ tstate[thread] = "running"

\* lines 94-95: was_visible = isVisible(); hide()
TriggerBegin ==
    /\ listener = "started"
    /\ pc = "idle"
    /\ nTrig < MaxTriggers
    /\ nTrig' = nTrig + 1
    /\ cur' = nTrig + 1
    /\ was_visible' = visible
    /\ visible' = FALSE
    /\ fate' = [fate EXCEPT ![nTrig + 1] = "pending"]
    /\ arrival' = [arrival EXCEPT ![nTrig + 1] =
                      IF InFlight THEN "busy" ELSE "idle"]
    /\ pc' = "capture"
    /\ UNCHANGED <<label, region, workerVars, capt, sink, posts, during,
                   regionVars, clientVars, sideVars>>

\* line 98: b64 = self._capture.capture_as_base64(self._region), which
\* returns the encoded pixels or raises.
Capture ==
    /\ pc = "capture"
    /\ \E ok \in BOOLEAN : \E e \in CaptureErrors :
         /\ capt' = [capt EXCEPT ![cur] =
                [taken |-> TRUE, ok |-> ok, region |-> region,
                 monitor |-> BuildMonitor(region), overlay |-> visible,
                 exc |-> IF ok THEN "" ELSE e]]
         /\ pc' = IF ok THEN "finally" ELSE "except"
    /\ UNCHANGED <<cur, nTrig, was_visible, visible, label, region,
                   workerVars, sink, posts, fate, during, arrival,
                   regionVars, clientVars, sideVars>>

\* lines 99-103: show_error("Screen capture failed: {exc}\n{traceback}")
CaptureFailedMessage(e) == <<"Screen capture failed", e>>

ShowCaptureError ==
    /\ pc = "except"
    /\ Show(cur, ShowErrorCall(CaptureFailedMessage(capt[cur].exc)))
    /\ fate' = [fate EXCEPT ![cur] = "capture_failed"]
    /\ pc' = "finally"
    /\ UNCHANGED <<cur, nTrig, was_visible, region, workerVars, capt, posts,
                   during, arrival,
                   regionVars, clientVars, sideVars>>

\* where _trigger_scan goes after the finally clause: the except clause
\* returns, the normal path calls _start_worker (lines 104, 109)
AfterFinallyNoReturn(ok) == "start"

AfterFinally(ok) == IF ok THEN "start" ELSE "idle"

\* lines 105-107: finally: if was_visible: show_loading()
FinallyOnlyOnSuccess ==
    /\ pc = "finally"
    /\ IF was_visible /\ capt[cur].ok
       THEN Show(cur, ShowLoadingCall)
       ELSE UNCHANGED <<label, visible, sink>>
    /\ pc' = AfterFinally(capt[cur].ok)
    /\ cur' = IF AfterFinally(capt[cur].ok) = "idle" THEN 0 ELSE cur
    /\ UNCHANGED <<nTrig, was_visible, region, workerVars, capt, posts, fate,
                   during, arrival,
                   regionVars, clientVars, sideVars>>

Finally ==
    /\ pc = "finally"
    /\ IF was_visible
       THEN Show(cur, ShowLoadingCall)
       ELSE UNCHANGED <<label, visible, sink>>
    /\ pc' = AfterFinally(capt[cur].ok)
    /\ cur' = IF AfterFinally(capt[cur].ok) = "idle" THEN 0 ELSE cur
    /\ UNCHANGED <<nTrig, was_visible, region, workerVars, capt, posts, fate,
                   during, arrival,
                   regionVars, clientVars, sideVars>>

\* ------------------------------------------------- App._start_worker
\* lines 114-115 with a QThread that deleteLater has destroyed: the wrapper
\* raises RuntimeError and the trigger ends without a worker.
StartWorkerRaise ==
    /\ pc = "start"
    /\ thread # 0 /\ tstate[thread] = "deleted"
    /\ fate' = [fate EXCEPT ![cur] = "raised"]
    /\ pc' = "idle"
    /\ cur' = 0
    /\ UNCHANGED <<nTrig, was_visible, visible, label, region, workerVars,
                   capt, sink, posts, during, arrival,
                   regionVars, clientVars, sideVars>>

\* lines 114-115: return  (ignore new request while one is in flight)
StartWorkerDropCancels ==
    /\ pc = "start"
    /\ ~(thread # 0 /\ tstate[thread] = "deleted")
    /\ InFlight
    /\ fate' = [fate EXCEPT ![cur] = "dropped"]
    /\ during' = [during EXCEPT ![cur] = thread]
    /\ wpc' = [wpc EXCEPT ![thread] = "off"]
    /\ tstate' = [tstate EXCEPT ![thread] = "finished"]
    /\ pc' = "idle"
    /\ cur' = 0
    /\ UNCHANGED <<nTrig, was_visible, visible, label, region, thread, wres,
                   capt, sink, posts, arrival,
                   regionVars, clientVars, sideVars>>

StartWorkerDrop ==
    /\ pc = "start"
    /\ ~(thread # 0 /\ tstate[thread] = "deleted")
    /\ InFlight
    /\ fate' = [fate EXCEPT ![cur] = "dropped"]
    /\ during' = [during EXCEPT ![cur] = thread]
    /\ pc' = "idle"
    /\ cur' = 0
    /\ UNCHANGED <<nTrig, was_visible, visible, label, region, workerVars,
                   capt, sink, posts, arrival,
                   regionVars, clientVars, sideVars>>

\* lines 117-128: new QThread, new AIWorker, connect, start.  Rebinding
\* App._thread drops the last reference to the previous, finished QThread,
\* which is destroyed with its wrapper.
StartWorkerStartInline ==
    /\ pc = "start"
    /\ ~(thread # 0 /\ tstate[thread] = "deleted")
    /\ ~InFlight
    /\ thread' = cur
    /\ tstate' = [tstate EXCEPT ![cur] = "running"]
    /\ wpc' = [wpc EXCEPT ![cur] = "awaiting"]
    /\ posts' = [posts EXCEPT ![cur] = Append(@, "vision")]
    /\ fate' = [fate EXCEPT ![cur] = "accepted"]
    /\ pc' = "idle"
    /\ cur' = 0
    /\ UNCHANGED <<nTrig, was_visible, visible, label, region, wres, capt,
                   sink, during, arrival,
                   regionVars, clientVars, sideVars>>

StartWorkerStart ==
    /\ pc = "start"
    /\ ~(thread # 0 /\ tstate[thread] = "deleted")
    /\ ~InFlight
    /\ thread' = cur
    /\ tstate' = [t \in Trig |->
                    IF t = cur THEN "running"
                    ELSE IF t = thread /\ tstate[t] = "finished"
                    THEN "deleted"
                    ELSE tstate[t]]
    /\ wpc' = [wpc EXCEPT ![cur] = "started"]
    /\ fate' = [fate EXCEPT ![cur] = "accepted"]
    /\ pc' = "idle"
    /\ cur' = 0
    /\ UNCHANGED <<nTrig, was_visible, visible, label, region, wres, capt,
                   sink, posts, during, arrival,
                   regionVars, clientVars, sideVars>>

\* ------------------------------------------------- AIWorker.run
\* line 40 -> answer_from_screenshot -> _call lines 112-118: one POST
WorkerPost(t) ==
    /\ qt # "exited"
    /\ wpc[t] = "started"
    /\ posts' = [posts EXCEPT ![t] = Append(@, "vision")]
    /\ wpc' = [wpc EXCEPT ![t] = "awaiting"]
    /\ UNCHANGED <<hotkeyVars, visible, label, region, thread, tstate, wres,
                   capt, sink, fate, during, arrival,
                   regionVars, clientVars, sideVars>>

\* where run goes once the call has returned or raised: to the emit
AfterCallRetry(res) == IF res.kind = "raise" THEN "started" ELSE "emit"

AfterCall(res) == "emit"

\* _call lines 119-127: the response arrives (or the transport fails)
WorkerResponse(t) ==
    /\ qt # "exited"
    /\ wpc[t] = "awaiting"
    /\ \E resp \in Responses :
         /\ wres' = [wres EXCEPT ![t] = CallResult(resp)]
         /\ wpc' = [wpc EXCEPT ![t] = AfterCall(CallResult(resp))]
    /\ UNCHANGED <<hotkeyVars, visible, label, region, thread, tstate, capt,
                   sink, posts, fate, during, arrival,
                   regionVars, clientVars, sideVars>>

\* lines 41/45 with the connections of lines 122-123: the emitted signal
\* calls _on_ai_finished / _on_ai_error, which call the overlay.
WorkerEmit(t) ==
    /\ qt # "exited"
    /\ wpc[t] = "emit"
    /\ LET sigs == RunSignals(wres[t])
           calls == [i \in 1..Len(sigs) |-> OnSignal(sigs[i])]
       IN  /\ sink' = [sink EXCEPT ![t] = @ \o calls]
           /\ label' = IF Len(calls) > 0 THEN calls[Len(calls)] ELSE label
           /\ visible' = IF Len(calls) > 0 THEN TRUE ELSE visible
    /\ wpc' = [wpc EXCEPT ![t] = "quit"]
    /\ UNCHANGED <<hotkeyVars, region, thread, tstate, wres, capt, posts,
                   fate, during, arrival,
                   regionVars, clientVars, sideVars>>

\* lines 124-125: the signal also quits the thread, whose event loop then
\* exits: isRunning() becomes False.
ThreadQuit(t) ==
    /\ qt # "exited"
    /\ wpc[t] = "quit"
    /\ tstate' = [tstate EXCEPT ![t] = "finished"]
    /\ wpc' = [wpc EXCEPT ![t] = "done"]
    /\ UNCHANGED <<hotkeyVars, visible, label, region, thread, wres, capt,
                   sink, posts, fate, during, arrival,
                   regionVars, clientVars, sideVars>>

\* line 126: thread.finished -> thread.deleteLater.  The C++ QThread is
\* destroyed some time after it finished, while App._thread keeps the
\* wrapper.
DeleteLater(t) ==
    /\ qt # "exited"
    /\ thread = t
    /\ tstate[t] = "finished"
    /\ tstate' = [tstate EXCEPT ![t] = "deleted"]
    /\ UNCHANGED <<hotkeyVars, visible, label, region, thread, wpc, wres,
                   capt, sink, posts, fate, during, arrival,
                   regionVars, clientVars, sideVars>>

\* ------------------------------------------------- other callbacks
\* OverlayWindow.toggle_visibility (hotkey callback)
ToggleVisibility ==
    /\ listener = "started"
    /\ pc = "idle"
    /\ visible' = ~visible
    /\ UNCHANGED <<hotkeyVars, label, region, workerVars, capt, sink, posts,
                   fate, during, arrival,
                   regionVars, clientVars, sideVars>>

\* App._on_region_selected
OnRegionSelectedFirstWins ==
    /\ qt # "exited"
    /\ \E r \in SelectorRegions :
         /\ lastUpdate' = r
         /\ region' = IF region = NoRegion THEN r ELSE region
    /\ lastUpdate' # lastUpdate
    /\ UNCHANGED <<hotkeyVars, visible, label, workerVars, capt, sink, posts,
                   fate, during, arrival, clientVars, sideVars>>

OnRegionSelected ==
    /\ qt # "exited"
    /\ \E r \in SelectorRegions :
         /\ lastUpdate' = r
         /\ region' = r
    /\ region' # region
    /\ UNCHANGED <<hotkeyVars, visible, label, workerVars, capt, sink, posts,
                   fate, during, arrival, clientVars, sideVars>>

Next ==
    \/ TriggerBegin
    \/ Capture
    \/ ShowCaptureError
    \/ Finally
    \/ StartWorkerRaise
    \/ StartWorkerDrop
    \/ StartWorkerStart
    \/ \E t \in Trig : WorkerPost(t)
    \/ \E t \in Trig : WorkerResponse(t)
    \/ \E t \in Trig : WorkerEmit(t)
    \/ \E t \in Trig : ThreadQuit(t)
    \/ \E t \in Trig : DeleteLater(t)
    \/ ToggleVisibility
    \/ OnRegionSelected

Spec == Init /\ [][Next]_vars

\* ------------------------------------------- GitHubAIClient called directly
\* The client and the prompt builder driven by a caller of their public
\* functions, with every constructor argument, environment and response.
ClientInit ==
    /\ pc = "idle"
    /\ cur = 0
    /\ nTrig = 0
    /\ was_visible = FALSE
    /\ visible = TRUE
    /\ label = ReadyLabel
    /\ region = NoRegion
    /\ lastUpdate = <<>>
    /\ thread = 0
    /\ tstate = [t \in Trig |-> "unborn"]
    /\ wpc = [t \in Trig |-> "off"]
    /\ wres = [t \in Trig |-> NoResult]
    /\ capt = [t \in Trig |-> NoCapture]
    /\ sink = [t \in Trig |-> <<>>]
    /\ posts = [t \in Trig |-> <<>>]
    /\ fate = [t \in Trig |-> "none"]
    /\ arrival = [t \in Trig |-> "none"]
    /\ during = [t \in Trig |-> 0]
    /\ env \in Envs
    /\ client = Unbuilt
    /\ lastCall = NoCall
    /\ transport = 0
    /\ built = NoBuilt
    /\ OcrNew
    /\ SelectorNew
    /\ AppRunning

\* GitHubAIClient(token, model, temperature, max_tokens, timeout)
Construct ==
    /\ client.state = "unbuilt"
    /\ built = NoBuilt
    /\ \E args \in CtorArgs : client' = NewClient(args, env)
    /\ UNCHANGED <<pipelineVars, sideVars, env, lastCall, transport, built>>

\* _call (lines 110-127) for the given messages: payload and headers, one
\* POST, then the outcome of the response
Call(fn, arg, messages, resp) ==
    [fn |-> fn, arg |-> arg,
     payload |-> BuildPayload(client, messages),
     headers |-> BuildHeaders(client),
     resp |-> resp, result |-> CallResult(resp), posts |-> 1]

\* answer_from_screenshot (lines 73-74)
AnswerFromScreenshot ==
    /\ client.state = "built"
    /\ transport < MaxCalls
    /\ \E base64_image \in Payloads, resp \in ClientResponses :
         lastCall' = Call("answer_from_screenshot", base64_image,
                          BuildVisionMessages(base64_image,
                                              DefaultVisionInstruction),
                          resp)
    /\ transport' = transport + 1
    /\ UNCHANGED <<pipelineVars, sideVars, env, client, built>>

\* answer_from_text (lines 89-90)
AnswerFromText ==
    /\ client.state = "built"
    /\ transport < MaxCalls
    /\ \E extracted_text \in Texts, resp \in ClientResponses :
         lastCall' = Call("answer_from_text", extracted_text,
                          BuildTextMessages(extracted_text,
                                            DefaultTextInstruction),
                          resp)
    /\ transport' = transport + 1
    /\ UNCHANGED <<pipelineVars, sideVars, env, client, built>>

\* PromptBuilder.build_vision_messages called with both arguments; the
\* builder is static, so it is exercised apart from any client
BuildVision ==
    /\ client.state = "unbuilt"
    /\ \E p \in Payloads, i \in Instructions :
         built' = [fn |-> "build_vision_messages", a |-> p, b |-> i,
                   out |-> BuildVisionMessages(p, i)]
    /\ built' # built
    /\ UNCHANGED <<pipelineVars, sideVars, env, client, lastCall, transport>>

\* PromptBuilder.build_text_messages called with both arguments
BuildText ==
    /\ client.state = "unbuilt"
    /\ \E t \in Texts, i \in Instructions :
         built' = [fn |-> "build_text_messages", a |-> t, b |-> i,
                   out |-> BuildTextMessages(t, i)]
    /\ built' # built
    /\ UNCHANGED <<pipelineVars, sideVars, env, client, lastCall, transport>>

ClientNext ==
    \/ Construct
    \/ AnswerFromScreenshot
    \/ AnswerFromText
    \/ BuildVision
    \/ BuildText

ClientSpec == ClientInit /\ [][ClientNext]_vars

\* ------------------------------------------------------------- OCREngine
\* One engine called from OcrCallers contexts.
OcrInit ==
    /\ PipelineNew(NoRegion)
    /\ ClientNew
    /\ OcrNew
    /\ SelectorNew
    /\ AppRunning

\* extract_text line 43 / extract_text_from_bytes lines 61-62: the call
\* enters _get_reader
OcrCall(c) ==
    /\ opc[c] = "idle"
    /\ ocalls[c] < MaxOcrCalls
    /\ ocalls' = [ocalls EXCEPT ![c] = @ + 1]
    /\ opc' = [opc EXCEPT ![c] = "test"]
    /\ UNCHANGED <<pipelineVars, clientVars, selectorVars, shutdownVars,
                   oreader, nReaders, oused>>

\* where _get_reader goes after the test of line 70
AfterTest(c) == IF oreader = 0 THEN "construct" ELSE "return"

\* _get_reader line 70: if self._reader is None
OcrTest(c) ==
    /\ opc[c] = "test"
    /\ opc' = [opc EXCEPT ![c] = AfterTest(c)]
    /\ UNCHANGED <<pipelineVars, clientVars, selectorVars, shutdownVars,
                   oreader, nReaders, oused, ocalls>>

\* _get_reader lines 72-76: import easyocr and self._reader = Reader(...)
OcrConstruct(c) ==
    /\ opc[c] = "construct"
    /\ nReaders' = nReaders + 1
    /\ oreader' = nReaders + 1
    /\ opc' = [opc EXCEPT ![c] = "return"]
    /\ UNCHANGED <<pipelineVars, clientVars, selectorVars, shutdownVars,
                   oused, ocalls>>

\* _get_reader lines 77-81: the import fails, ImportError leaves the call
OcrImportError(c) ==
    /\ opc[c] = "construct"
    /\ opc' = [opc EXCEPT ![c] = "idle"]
    /\ UNCHANGED <<pipelineVars, clientVars, selectorVars, shutdownVars,
                   oreader, nReaders, oused, ocalls>>

\* _get_reader line 82 and extract_text lines 44-48: the call reads the
\* text with the reader that _get_reader returned
OcrReturn(c) ==
    /\ opc[c] = "return"
    /\ oused' = [oused EXCEPT ![c] = Append(@, oreader)]
    /\ opc' = [opc EXCEPT ![c] = "idle"]
    /\ UNCHANGED <<pipelineVars, clientVars, selectorVars, shutdownVars,
                   oreader, nReaders, ocalls>>

OcrNext ==
    \E c \in 1..OcrCallers :
      \/ OcrCall(c)
      \/ OcrTest(c)
      \/ OcrConstruct(c)
      \/ OcrImportError(c)
      \/ OcrReturn(c)

OcrSpec == OcrInit /\ [][OcrNext]_vars

\* ------------------------------------------- config and RegionSelector
\* Positions of the mouse on the screen
Points == {<<0, 0>>, <<4, 9>>, <<9, 4>>, <<9, 9>>}

\* _selection_rect (lines 104-107): QRect(origin, current).normalized(),
\* a QRect given by its corners, as <<x, y, width, height>>
SelectionRect(o, c) ==
    << IF c[1] < o[1] THEN c[1] + 1 ELSE o[1],
       IF c[2] < o[2] THEN c[2] + 1 ELSE o[2],
       IF c[1] < o[1] THEN o[1] - c[1] - 1 ELSE c[1] - o[1] + 1,
       IF c[2] < o[2] THEN o[2] - c[2] - 1 ELSE c[2] - o[2] + 1 >>

\* line 82: the rectangles that are emitted
SelectionAcceptedFrom5(rect) == rect[3] >= 5 /\ rect[4] >= 5

SelectionAccepted(rect) == rect[3] > 5 /\ rect[4] > 5

RegionInit ==
    /\ \E value \in ConfigValues : PipelineNew(ParseRegion(value))
    /\ ClientNew
    /\ OcrNew
    /\ SelectorNew
    /\ AppRunning

\* RegionSelector.start (lines 33-40), bound to the region hotkey
SelectorStart ==
    /\ ~selOpen
    /\ sessions < MaxSessions
    /\ selOpen' = TRUE
    /\ sessions' = sessions + 1
    /\ emitted' = <<>>
    /\ closedBy' = "none"
    /\ UNCHANGED <<pipelineVars, clientVars, ocrVars, shutdownVars,
                   origin, current>>

\* mousePressEvent (lines 67-71) with the left button
MousePress ==
    /\ selOpen
    /\ \E p \in Points : origin' = p /\ current' = p
    /\ <<origin', current'>> # <<origin, current>>
    /\ UNCHANGED <<pipelineVars, clientVars, ocrVars, shutdownVars,
                   selOpen, emitted, sessions, closedBy>>

\* mouseMoveEvent (lines 73-76)
MouseMove ==
    /\ selOpen
    /\ origin # NoPoint
    /\ \E p \in Points : current' = p
    /\ current' # current
    /\ UNCHANGED <<pipelineVars, clientVars, ocrVars, shutdownVars,
                   selOpen, origin, emitted, sessions, closedBy>>

\* mouseReleaseEvent (lines 78-85) with the left button after a press;
\* the emitted signal runs App._on_region_selected (main.py:136-137)
MouseRelease ==
    /\ selOpen
    /\ origin # NoPoint
    /\ selOpen' = FALSE
    /\ closedBy' = "release"
    /\ IF SelectionAccepted(SelectionRect(origin, current))
       THEN /\ emitted' = Append(emitted, SelectionRect(origin, current))
            /\ region' = SelectionRect(origin, current)
            /\ lastUpdate' = SelectionRect(origin, current)
       ELSE UNCHANGED <<emitted, region, lastUpdate>>
    /\ UNCHANGED <<pc, cur, nTrig, was_visible, visible, label, thread,
                   tstate, wpc, wres, capt, sink, posts, fate, arrival,
                   during, clientVars, ocrVars, shutdownVars,
                   origin, current, sessions>>

\* keyPressEvent (lines 87-89) with the Escape key
KeyEscape ==
    /\ selOpen
    /\ selOpen' = FALSE
    /\ closedBy' = "escape"
    /\ UNCHANGED <<pipelineVars, clientVars, ocrVars, shutdownVars,
                   origin, current, emitted, sessions>>

RegionNext ==
    \/ SelectorStart
    \/ MousePress
    \/ MouseMove
    \/ MouseRelease
    \/ KeyEscape

RegionSpec == RegionInit /\ [][RegionNext]_vars

\* ------------------------------------------------------------- shutdown
ShutdownInit ==
    /\ PipelineNew(NoRegion)
    /\ ClientNew
    /\ OcrNew
    /\ SelectorNew
    /\ AppRunning

\* App._quit (lines 139-141), the callback of the quit hotkey:
\* HotkeyManager.stop (hotkey_manager.py:59-63), then QApplication.quit
Quit ==
    /\ listener = "started"
    /\ pc = "idle"
    /\ listener' = "stopped"
    /\ qt' = "quit"
    /\ UNCHANGED <<pipelineVars, clientVars, ocrVars, selectorVars, sct>>

\* App.run line 85 and main line 149: exec returns and the process exits;
\* ScreenCapture.__del__ (screen_capture.py:81-85) closes the handle if
\* the interpreter runs it
MainReturns ==
    /\ qt = "quit"
    /\ qt' = "exited"
    /\ sct' \in {"open", "closed"}
    /\ UNCHANGED <<pipelineVars, clientVars, ocrVars, selectorVars,
                   listener>>

ShutdownNext ==
    \/ TriggerBegin
    \/ Capture
    \/ ShowCaptureError
    \/ Finally
    \/ StartWorkerRaise
    \/ StartWorkerDrop
    \/ StartWorkerStart
    \/ \E t \in Trig : WorkerPost(t)
    \/ \E t \in Trig : WorkerResponse(t)
    \/ \E t \in Trig : WorkerEmit(t)
    \/ \E t \in Trig : ThreadQuit(t)
    \/ \E t \in Trig : DeleteLater(t)
    \/ ToggleVisibility
    \/ OnRegionSelected
    \/ Quit
    \/ MainReturns

ShutdownSpec == ShutdownInit /\ [][ShutdownNext]_vars

TypeOK ==
    /\ pc \in {"idle", "capture", "except", "finally", "start"}
    /\ cur \in 0..MaxTriggers
    /\ nTrig \in 0..MaxTriggers
    /\ visible \in BOOLEAN
    /\ thread \in 0..MaxTriggers
    /\ \A t \in Trig :
         /\ tstate[t] \in {"unborn", "running", "finished", "deleted"}
         /\ wpc[t] \in {"off", "started", "awaiting", "emit", "quit", "done"}
         /\ fate[t] \in {"none", "pending", "capture_failed", "dropped",
                         "accepted", "raised"}
         /\ arrival[t] \in {"none", "idle", "busy"}

\* ------------------------------------------------------------ properties
\* The terminal events (answer or error) the sink received for trigger t.
IsTerminal(c) == c.op \in {"show_result", "show_error"}

Terminal(t) == SelectSeq(sink[t], IsTerminal)

Running(t) == wpc[t] \in {"started", "awaiting", "emit", "quit"}

\* C1: single-flight -- a trigger that arrives while a run is in flight
\* takes no capture and causes no network call.
C1_SingleFlight ==
    \A t \in Trig :
        arrival[t] = "busy" => ~capt[t].taken /\ posts[t] = <<>>

\* C2: in every reachable state at most one AIWorker run, hence at most one
\* network call, is in flight.
C2_AtMostOneRun ==
    /\ Cardinality({t \in Trig : Running(t)}) <= 1
    /\ Cardinality({t \in Trig : wpc[t] = "awaiting"}) <= 1
    /\ \A t \in Trig : Running(t) => thread = t /\ tstate[t] = "running"

C2_Witness ==
    \E t, u \in Trig : wpc[t] = "awaiting" /\ fate[u] = "dropped"

C4_TerminalAtomicWithIdle ==
    /\ [](\A t \in Trig :
            /\ Terminal(t) # <<>> /\ fate[t] = "accepted"
                  => wpc[t] \in {"quit", "done"}
            /\ wpc[t] = "done" => Terminal(t) # <<>>)
    /\ [][(pc = "start" /\ pc' = "idle")
            => ~(\E t \in Trig : wpc[t] = "quit")]_vars

\* C5: at the instant of every capture the overlay is not visible.
C5_OverlayHiddenAtCapture ==
    \A t \in Trig : capt[t].taken => ~capt[t].overlay

\* C6: when a trigger's capture raises, the sink receives exactly one
\* show_error carrying the capture failure, and neither a worker nor a
\* network call is started for that trigger.
C6_CaptureFailure ==
    \A t \in Trig :
        capt[t].taken /\ ~capt[t].ok =>
            /\ wpc[t] = "off" /\ tstate[t] = "unborn" /\ thread # t
            /\ posts[t] = <<>>
            /\ fate[t] = "capture_failed" =>
                 Terminal(t) =
                     <<ShowErrorCall(<<"Screen capture failed", capt[t].exc>>)>>
            /\ fate[t] = "pending" => Terminal(t) = <<>>

C6_Witness ==
    \E t \in Trig : fate[t] = "capture_failed" /\ cur # t /\ nTrig > t

\* C7: a trigger taken from Idle with no region configured, whose capture
\* succeeds and whose call returns answer A, yields exactly one
\* show_result(A), no show_error, and the pipeline is Idle afterwards.
C7_EndToEndSuccess ==
    \A t \in Trig :
        ( /\ fate[t] = "accepted" /\ arrival[t] = "idle"
          /\ capt[t].region = NoRegion
          /\ wres[t].kind = "return" /\ wres[t].value.type = "string"
          /\ wpc[t] = "done" ) =>
            /\ Terminal(t) = <<ShowResultCall(wres[t].value.s)>>
            /\ tstate[t] # "running"
            /\ thread = t => ~InFlight

C7_Witness ==
    \E t \in Trig :
        /\ wpc[t] = "done" /\ capt[t].region = NoRegion
        /\ wres[t].kind = "return" /\ wres[t].value.type = "string"
        /\ label = ShowResultCall("A1")

\* C8: every per-trigger failure is delivered as a terminal error event, the
\* pipeline returns to Idle, and the next trigger after it is accepted.
C8_FailureRecovers ==
    /\ [](\A t \in Trig :
            wpc[t] = "done" /\ wres[t].kind = "raise" =>
                /\ Terminal(t) = <<ShowErrorCall(<<wres[t].exc>>)>>
                /\ tstate[t] # "running")
    /\ [][( /\ pc = "start" /\ pc' = "idle" /\ arrival[cur] = "idle"
            /\ thread # 0 /\ wpc[thread] = "done"
            /\ wres[thread].kind = "raise" )
            => fate'[cur] = "accepted"]_vars

\* C9: no automatic retry -- each accepted trigger causes at most one
\* network call, always in vision mode, and a failed call is not repeated.
C9_NoRetry ==
    \A t \in Trig :
        /\ Len(posts[t]) <= 1
        /\ \A i \in DOMAIN posts[t] : posts[t][i] = "vision"
        /\ posts[t] # <<>> => fate[t] = "accepted"
        /\ wpc[t] \in {"awaiting", "emit", "quit", "done"} => Len(posts[t]) = 1

C9_Witness ==
    \E t \in Trig :
        /\ wpc[t] = "done" /\ wres[t].kind = "raise" /\ Len(posts[t]) = 1
        /\ nTrig > t

\* C10: a trigger discarded while a run is in flight is neither queued nor
\* coalesced and does not cancel that run, which still publishes its own
\* terminal event; no run is ever started for the discarded trigger.
C10_DroppedTrigger ==
    \A t \in Trig :
        fate[t] = "dropped" =>
            /\ wpc[t] = "off" /\ tstate[t] = "unborn" /\ thread # t
            /\ posts[t] = <<>>
            /\ Terminal(t) = <<>>
            /\ during[t] \in Trig
            /\ fate[during[t]] = "accepted"
            /\ wpc[during[t]] # "off"
            /\ wpc[during[t]] = "done" => Len(Terminal(during[t])) = 1

C10_Witness ==
    \E t \in Trig :
        /\ fate[t] = "dropped" /\ pc = "idle"
        /\ wpc[during[t]] = "done" /\ tstate[during[t]] = "deleted"

\* C11 (as claimed): for every accepted trigger both the capture and the
\* network call are steps of the worker's context, never of the context that
\* received the trigger.
C11_CaptureAndCallOnWorker ==
    [][ /\ capt' # capt => UNCHANGED hotkeyVars
        /\ posts' # posts => UNCHANGED hotkeyVars ]_vars

\* C11 (amended): the network call is a step of the worker's context, taken
\* while its thread runs; the capture is a step of the context that received
\* the trigger, taken inside _trigger_scan before the trigger has a worker.
C11_CallOnWorkerCaptureOnCaller ==
    [][ /\ posts' # posts =>
              /\ UNCHANGED hotkeyVars
              /\ \E t \in Trig :
                    /\ posts'[t] # posts[t]
                    /\ wpc[t] = "started" /\ tstate[t] = "running"
        /\ capt' # capt =>
              /\ pc = "capture" /\ pc' # "capture"
              /\ capt'[cur] # capt[cur]
              /\ tstate[cur] = "unborn" /\ wpc[cur] = "off" ]_vars

C11_Witness ==
    \E t \in Trig : capt[t].ok /\ wpc[t] = "awaiting" /\ Len(posts[t]) = 1

C13_EmptyCredentialFails ==
    client.state # "unbuilt" =>
      /\ client.state = "raised" <=>
           /\ ~client.args.token.given \/ client.args.token.v = ""
           /\ env.GITHUB_TOKEN = ""
      /\ client.state = "raised" => transport = 0 /\ lastCall = NoCall
      /\ client.state = "built" => client.token # ""

C13_Witness ==
    /\ client.state = "raised"
    /\ client.args.token = Given("")
    /\ client.args.model.given
    /\ client.args.max_tokens = 16

\* A body of the shape {choices: [{message: {content: C}}, ...]}
HasFirstContent(body) ==
    /\ body.type = "object"
    /\ "choices" \in DOMAIN body.v
    /\ body.v.choices.type = "array"
    /\ Len(body.v.choices.v) >= 1
    /\ body.v.choices.v[1].type = "object"
    /\ "message" \in DOMAIN body.v.choices.v[1].v
    /\ body.v.choices.v[1].v.message.type = "object"
    /\ "content" \in DOMAIN body.v.choices.v[1].v.message.v

\* The response shape {choices: [{message: {content: <string>}}, ...]}
ExpectedShape(body) ==
    /\ HasFirstContent(body)
    /\ body.v.choices.v[1].v.message.v.content.type = "string"

\* the last call received a success status
GotSuccessStatus ==
    /\ lastCall.resp.kind = "http"
    /\ lastCall.resp.status >= 200
    /\ lastCall.resp.status <= 299

\* C14: a call that receives a success status with a body lacking the
\* expected shape raises the protocol error (the ValueError of lines
\* 125-127) carrying the body, and neither returns nor raises anything
\* else.
C14_MalformedBodyIsProtocolError ==
    GotSuccessStatus /\ ~ExpectedShape(lastCall.resp.body) =>
      lastCall.result = [kind |-> "raise", exc |-> "ValueError",
                         value |-> lastCall.resp.body]

\* every call issues exactly one POST
OnePostPerCall ==
    [][lastCall' # lastCall =>
         /\ transport' = transport + 1
         /\ lastCall'.posts = 1]_vars

\* C15: a call that receives a status outside 200..299 raises the remote
\* error (httpx.HTTPStatusError, from raise_for_status) and has invoked the
\* transport exactly once.
C15_NonSuccessStatusIsRemoteError ==
    /\ [](lastCall.resp.kind = "http" /\ ~GotSuccessStatus =>
            /\ lastCall.result.kind = "raise"
            /\ lastCall.result.exc = "HTTPStatusError")
    /\ OnePostPerCall

C15_Witness ==
    /\ lastCall.resp.kind = "http"
    /\ lastCall.resp.status = 302
    /\ lastCall.result.exc = "HTTPStatusError"
    /\ transport = 1

\* C16: a call whose POST fails at the network level raises the transport
\* error (httpx.RequestError), which is neither the remote error nor the
\* protocol error, and the POST was attempted once.
C16_NetworkFailureIsTransportError ==
    /\ [](lastCall.resp.kind = "transport" =>
            /\ lastCall.resp.cause \in TransportFailures
            /\ lastCall.result.kind = "raise"
            /\ lastCall.result.exc = "RequestError"
            /\ lastCall.result.exc \notin {"HTTPStatusError", "ValueError"}
            /\ lastCall.posts = 1)
    /\ [][lastCall'.resp.kind = "transport" /\ lastCall' # lastCall =>
            transport' = transport + 1]_vars

C16_Witness ==
    /\ lastCall.fn = "answer_from_screenshot"
    /\ lastCall.resp.cause = "ConnectTimeout"
    /\ lastCall.result.exc = "RequestError"
    /\ transport = 1

\* C17: a call that receives a success status and a body of the shape
\* {choices: [{message: {content: C}}, ...]} returns C, the content of
\* the first choice, whatever the later choices are.
C17_FirstChoiceContent ==
    GotSuccessStatus /\ HasFirstContent(lastCall.resp.body) =>
      lastCall.result =
        [kind |-> "return", exc |-> "",
         value |-> lastCall.resp.body.v.choices.v[1].v.message.v.content]

C17_Witness ==
    /\ GotSuccessStatus
    /\ HasFirstContent(lastCall.resp.body)
    /\ Len(lastCall.resp.body.v.choices.v) = 2
    /\ lastCall.resp.body.v.choices.v[2] = Choice(JStr("A2"))
    /\ lastCall.result.kind = "return"
    /\ lastCall.result.value = JStr("A1")

\* C18: build_vision_messages(P, I) returns two messages, the system
\* message then the user message, whose content is a list of two parts:
\* the image part referring to "data:image/png;base64," followed by P, then
\* the text part I.
C18_VisionMessages ==
    built.fn = "build_vision_messages" =>
      /\ Len(built.out) = 2
      /\ built.out[1].role = "system"
      /\ built.out[2].role = "user"
      /\ Len(built.out[2].content) = 2
      /\ built.out[2].content[1].type = "image_url"
      /\ built.out[2].content[1].image_url.url
           = "data:image/png;base64," \o built.a
      /\ built.out[2].content[2] = [type |-> "text", text |-> built.b]

C18_Witness ==
    /\ built.fn = "build_vision_messages"
    /\ built.a = "QUJDREVG"
    /\ built.b = "Solve it"
    /\ built.out[2].content[1].image_url.url
         = "data:image/png;base64,QUJDREVG"

\* C19: build_text_messages(T, I) returns the system message followed by
\* one user message whose content is "Screen content:\n\n", T, "\n\n"
\* and I joined in that order.
C19_TextMessages ==
    built.fn = "build_text_messages" =>
      /\ Len(built.out) = 2
      /\ built.out[1] = [role |-> "system", content |-> SYSTEM_PROMPT_TEXT]
      /\ built.out[2].role = "user"
      /\ built.out[2].content
           = "Screen content:\n\n" \o built.a \o "\n\n" \o built.b

C19_Witness ==
    /\ built.fn = "build_text_messages"
    /\ built.a = "line1\nline2"
    /\ built.b = "Solve it"
    /\ built.out[2].content = "Screen content:\n\nline1\nline2\n\nSolve it"

\* C20 as stated: when the finally clause of a trigger has run, the
\* overlay's visibility is what it was before the trigger, and if
\* _start_worker is about to be called the loading indication is shown.
C20_RestoredAndLoading ==
    [][pc = "finally" /\ pc' # "finally" =>
         /\ visible' = was_visible
         /\ pc' = "start" => label' = ShowLoadingCall]_vars

\* C20: whatever the outcome of the capture, the finally clause calls
\* show_loading, which shows the overlay, exactly when the overlay was
\* visible before the trigger; when it was not, the clause leaves the
\* overlay's visibility and text as they are.
C20_LoadingIffWasVisible ==
    [][pc = "finally" /\ pc' # "finally" =>
         /\ was_visible =>
              /\ visible'
              /\ label' = ShowLoadingCall
              /\ sink'[cur] = Append(sink[cur], ShowLoadingCall)
         /\ ~was_visible => UNCHANGED <<visible, label, sink>>]_vars

C20_Witness ==
    \E t \in Trig :
      /\ capt[t].taken /\ ~capt[t].ok
      /\ Len(sink[t]) >= 2
      /\ sink[t][Len(sink[t]) - 1].op = "show_error"
      /\ sink[t][Len(sink[t])] = ShowLoadingCall
      /\ visible

\* C21: once the handler of a trigger whose capture failed has returned,
\* the last notification the sink received for that trigger is the
\* show_error of the capture failure, and no show_loading follows it.
C21_CaptureErrorIsLast ==
    \A t \in Trig :
      fate[t] = "capture_failed" /\ cur # t =>
        /\ sink[t] # <<>>
        /\ sink[t][Len(sink[t])]
             = ShowErrorCall(CaptureFailedMessage(capt[t].exc))

\* C22: whenever the sink shows the loading indication and no trigger
\* handler is executing, some run is in flight whose terminal event has
\* not been delivered yet.
C22_NoStuckLoading ==
    label = ShowLoadingCall /\ pc = "idle" =>
      \E t \in Trig : /\ tstate[t] = "running"
                      /\ wpc[t] \in {"started", "awaiting", "emit"}

\* C23: over any calls on one OCREngine, concurrent first calls included,
\* at most one reader is constructed and every call uses that reader.
C23_ReaderConstructedOnce ==
    /\ nReaders <= 1
    /\ \A c \in 1..OcrCallers :
         \A i \in 1..Len(oused[c]) : oused[c][i] = 1

\* the messages that the public function of the last call builds from its
\* argument
MessagesOfLastCall ==
    IF lastCall.fn = "answer_from_screenshot"
    THEN BuildVisionMessages(lastCall.arg, DefaultVisionInstruction)
    ELSE BuildTextMessages(lastCall.arg, DefaultTextInstruction)

\* C24: a call on the client, whatever its outcome, leaves the client's
\* token, model, temperature, max_tokens and timeout as they were, and
\* the request of every call, first or later, is determined by that
\* configuration and the call's own messages.
C24_CallsKeepConfiguration ==
    /\ [][lastCall' # lastCall => client' = client]_vars
    /\ [](lastCall.fn # "none" =>
            /\ lastCall.payload =
                 [model |-> client.model,
                  messages |-> MessagesOfLastCall,
                  temperature |-> client.temperature,
                  max_tokens |-> client.max_tokens]
            /\ lastCall.headers =
                 [Authorization |-> "Bearer " \o client.token,
                  ContentType |-> "application/json"])

C24_Witness ==
    /\ transport = 2
    /\ lastCall.fn = "answer_from_text"
    /\ lastCall.result.kind = "raise"
    /\ client.args.model.given
    /\ lastCall.payload.model = "openai/gpt-4o-mini"

\* C25: every capture region that is not absent and that a capture was
\* given has a positive width and a positive height, whether it came from
\* config.CAPTURE_REGION or from the selector.
C25_RegionHasPositiveSize ==
    \A t \in Trig :
      capt[t].taken /\ capt[t].region # NoRegion =>
        capt[t].region[3] > 0 /\ capt[t].region[4] > 0

C27_QuitReleasesAndStops ==
    listener = "stopped" =>
      /\ sct = "closed"
      /\ \A t \in Trig : tstate[t] # "running"

====
